---- MODULE Spec2Model ----
(***************************************************************************)
(* Recurring expense pattern detector of the Spending Tracker:             *)
(* SpendingTracker/Services/RecurringExpenseDetector.swift.                *)
(*                                                                         *)
(* Conventions of the model                                                *)
(*  - A Swift Optional is a sequence of length 0 (nil) or 1 (a value).     *)
(*  - A String is a sequence of one-character strings.                     *)
(*  - A Double is an exact rational, a pair <<numerator, denominator>>     *)
(*    with a positive denominator; comparisons cross-multiply.             *)
(*  - A Date is a whole number of days since 2024-01-01.                   *)
(*  - UUID() is a fresh number taken from the counter nextUuid.            *)
(***************************************************************************)
EXTENDS Integers, Sequences, FiniteSets, TLC

VARIABLES
    isRecurring,       \* Expense.isRecurring of every expense of the store
    detectedPatterns,  \* RecurringExpenseDetector.detectedPatterns
    suggestions,       \* RecurringExpenseDetector.suggestions
    tasks,             \* analyze calls suspended at `await MainActor.run`
    nextUuid,          \* the next value UUID() returns
    lastOp,            \* the call that completed last (observation only)
    probe,             \* inputs and outputs of the pure-function runs
    inserted,          \* Expense objects inserted in the context and not saved
    persisted,         \* Expense objects saved to the store
    fetched,           \* ExpenseViewModel.expenses, the result of the last fetch
    checks,            \* Tasks spawned to run checkForRecurringPattern
    analyses,          \* the calls of analyzeExpenseForPatterns made by those Tasks
    running            \* per thread, the registry operation it is in the middle of

appVars == <<inserted, persisted, fetched, checks, analyses>>
hostVars == <<appVars, running>>
vars == <<isRecurring, detectedPatterns, suggestions, tasks, nextUuid, lastOp, probe,
          inserted, persisted, fetched, checks, analyses, running>>

(***************************************************************************)
(* Bounds of the model.                                                    *)
(***************************************************************************)
MaxUuid == 4        \* UUID() is called at most this many times
MaxInflight == 1    \* analyze calls suspended at the same time
MaxHistory == 3     \* length of the allExpenses argument of analyze
MaxTitleLen == 2    \* length of a probe title
MaxAmount == 2      \* largest probe amount
MaxClusterHistory == 2  \* length of the allExpenses argument of a cluster probe
MaxGaps == 3        \* number of intervals of a temporal-analyzer probe
MaxSimilar == 2     \* length of the similarExpenses argument of a pattern probe
MaxStored == 2      \* stored patterns when getUpcomingRecurring is probed
MaxExpenses == 3    \* Expense objects the recording paths create
MaxRows == 2        \* data rows of an imported CSV
MaxOrderHistory == 9    \* length of the allExpenses argument of an order probe
SignificandBits == 8    \* significant bits a Double keeps in the model

(***************************************************************************)
(* Optionals and rationals.                                                *)
(***************************************************************************)
None == <<>>
Some(x) == <<x>>
OrElse(opt, default) == IF opt = None THEN default ELSE opt[1]

RatLeq(p, q) == p[1] * q[2] <= q[1] * p[2]
RatLess(p, q) == p[1] * q[2] < q[1] * p[2]
RatEq(p, q) == p[1] * q[2] = q[1] * p[2]

Abs(x) == IF x < 0 THEN -x ELSE x
Max2(x, y) == IF y >= x THEN y ELSE x
Min3(x, y, z) == LET m == IF y < x THEN y ELSE x IN IF z < m THEN z ELSE m

(***************************************************************************)
(* Similarity scorer.                                                      *)
(***************************************************************************)
\* The weights, in hundredths.
amountWeight == 40
titleWeight == 35
categoryWeight == 25
\* findSimilarExpenses' threshold, in hundredths.
threshold == 80

\* The dynamic-programming table of the source, row by row: position j + 1
\* of a row holds dp[i][j].
RECURSIVE levenshteinRow(_, _, _, _)
levenshteinRow(prev, ch, str2, row) ==
    IF Len(row) = Len(str2) + 1 THEN row
    ELSE LET j == Len(row)
         IN levenshteinRow(prev, ch, str2,
                Append(row, IF ch = str2[j] THEN prev[j]
                            ELSE 1 + Min3(prev[j + 1], row[j], prev[j])))

RECURSIVE levenshteinRows(_, _, _, _)
levenshteinRows(str1, str2, i, prev) ==
    IF i > Len(str1) THEN prev
    ELSE levenshteinRows(str1, str2, i + 1, levenshteinRow(prev, str1[i], str2, <<i>>))

levenshteinDistance(str1, str2) ==
    LET n == Len(str2)
    IN levenshteinRows(str1, str2, 1, [j \in 1..(n + 1) |-> j - 1])[n + 1]

\* stringSimilarity dividing by the first string's length
stringSimilarityByFirstLength(str1, str2) ==
    IF ~(str1 # <<>> /\ str2 # <<>>)
    THEN IF str1 = <<>> /\ str2 = <<>> THEN <<1, 1>> ELSE <<0, 1>>
    ELSE <<Len(str1) - levenshteinDistance(str1, str2), Len(str1)>>

\* stringSimilarity scoring 0 as soon as one string is empty
stringSimilarityZeroForEmpty(str1, str2) ==
    IF ~(str1 # <<>> /\ str2 # <<>>)
    THEN <<0, 1>>
    ELSE LET longer == IF Len(str1) > Len(str2) THEN str1 ELSE str2
             shorter == IF Len(str1) > Len(str2) THEN str2 ELSE str1
             editDistance == levenshteinDistance(shorter, longer)
         IN <<Len(longer) - editDistance, Len(longer)>>

stringSimilarity(str1, str2) ==
    IF ~(str1 # <<>> /\ str2 # <<>>)
    THEN IF str1 = <<>> /\ str2 = <<>> THEN <<1, 1>> ELSE <<0, 1>>
    ELSE LET longer == IF Len(str1) > Len(str2) THEN str1 ELSE str2
             shorter == IF Len(str1) > Len(str2) THEN str2 ELSE str1
             editDistance == levenshteinDistance(shorter, longer)
         IN <<Len(longer) - editDistance, Len(longer)>>

\* amountSimilarity without abs
amountSimilaritySigned(amount1, amount2) ==
    LET amountDifference == amount1 - amount2
        maxAmount == Max2(amount1, amount2)
    IN IF maxAmount > 0 THEN <<maxAmount - amountDifference, maxAmount>> ELSE <<1, 1>>

\* amountSimilarity scoring two zero amounts 0
amountSimilarityZeroForZero(amount1, amount2) ==
    LET amountDifference == Abs(amount1 - amount2)
        maxAmount == Max2(amount1, amount2)
    IN IF maxAmount > 0 THEN <<maxAmount - amountDifference, maxAmount>> ELSE <<0, 1>>

amountSimilarity(amount1, amount2) ==
    LET amountDifference == Abs(amount1 - amount2)
        maxAmount == Max2(amount1, amount2)
    IN IF maxAmount > 0 THEN <<maxAmount - amountDifference, maxAmount>> ELSE <<1, 1>>

categorySimilarity(category1, category2) ==
    IF category1 = category2 THEN <<1, 1>> ELSE <<0, 1>>

\* similarityScore / totalWeight, the three terms over one denominator.
calculateSimilarity(expense1, expense2) ==
    LET a == amountSimilarity(expense1.amount, expense2.amount)
        t == stringSimilarity(OrElse(expense1.title, <<>>), OrElse(expense2.title, <<>>))
        c == categorySimilarity(expense1.category, expense2.category)
        totalWeight == amountWeight + titleWeight + categoryWeight
        similarityScore == a[1] * amountWeight * t[2] * c[2]
                           + t[1] * titleWeight * a[2] * c[2]
                           + c[1] * categoryWeight * a[2] * t[2]
    IN IF totalWeight > 0
       THEN <<similarityScore, totalWeight * a[2] * t[2] * c[2]>>
       ELSE <<0, 1>>

(***************************************************************************)
(* The expense store: the Expense records the callers hand to the          *)
(* detector.  Every field but isRecurring is fixed; isRecurring is the     *)
(* variable of that name.                                                  *)
(***************************************************************************)
Netflix == <<"N", "e", "t", "f", "l", "i", "x">>
Netflx == <<"N", "e", "t", "f", "l", "x">>

Expense(id, amount, title, category, date) ==
    [id |-> id, amount |-> amount, title |-> title, category |-> category, date |-> date]

Store ==
    << Expense(1, 93, Some(Netflix), Some("Entertainment"), 0),
       Expense(2, 93, Some(Netflix), Some("Entertainment"), 30),
       Expense(3, 60, Some(Netflix), Some("Entertainment"), 60),
       Expense(4, 50, Some(Netflx), Some("Entertainment"), 130) >>

ExpenseIds == 1..Len(Store)

\* The allExpenses arguments: the sequences of distinct expenses of the store.
Histories ==
    {h \in UNION {[1..n -> ExpenseIds] : n \in 0..MaxHistory} :
        \A i, j \in DOMAIN h : i # j => h[i] # h[j]}

Records(h) == [i \in DOMAIN h |-> Store[h[i]]]
IdsOf(expenses) == {expenses[i].id : i \in DOMAIN expenses}

(***************************************************************************)
(* Cluster, temporal analyzer and pattern builder.                         *)
(***************************************************************************)
\* findSimilarExpenses with `similarity > threshold`
findSimilarExpensesAboveThreshold(expense, allExpenses) ==
    SelectSeq(allExpenses,
              LAMBDA otherExpense :
                  /\ otherExpense.id # expense.id
                  /\ RatLess(<<threshold, 100>>, calculateSimilarity(expense, otherExpense)))

\* findSimilarExpenses with a threshold of 0.75
findSimilarExpensesAtThreeQuarters(expense, allExpenses) ==
    SelectSeq(allExpenses,
              LAMBDA otherExpense :
                  /\ otherExpense.id # expense.id
                  /\ RatLeq(<<75, 100>>, calculateSimilarity(expense, otherExpense)))

\* findSimilarExpenses with a threshold of 0.6
findSimilarExpensesAtSixty(expense, allExpenses) ==
    SelectSeq(allExpenses,
              LAMBDA otherExpense :
                  /\ otherExpense.id # expense.id
                  /\ RatLeq(<<60, 100>>, calculateSimilarity(expense, otherExpense)))

findSimilarExpenses(expense, allExpenses) ==
    SelectSeq(allExpenses,
              LAMBDA otherExpense :
                  /\ otherExpense.id # expense.id
                  /\ RatLeq(<<threshold, 100>>, calculateSimilarity(expense, otherExpense)))

\* the expenses in the order given, unsorted
sortedByDateAsGiven(expenses) == expenses

\* sorted { $0.date < $1.date }: elements of equal date keep their order.
RECURSIVE sortedByDate(_)
sortedByDate(expenses) ==
    IF expenses = <<>> THEN <<>>
    ELSE LET n == Len(expenses)
             x == expenses[n]
             front == sortedByDate(SubSeq(expenses, 1, n - 1))
             k == Cardinality({i \in DOMAIN front : ~(x.date < front[i].date)})
         IN SubSeq(front, 1, k) \o <<x>> \o SubSeq(front, k + 1, Len(front))

\* Gaps between neighbours, in days.
calculateIntervals(expenses) ==
    [i \in 1..(Len(expenses) - 1) |-> expenses[i + 1].date - expenses[i].date]

RECURSIVE reduceSum(_)
reduceSum(s) == IF s = <<>> THEN 0 ELSE s[1] + reduceSum(Tail(s))

\* frequencyOf with a daily range that includes 2 days
frequencyOfDailyThroughTwo(total, count) ==
    IF 0 <= total /\ total <= 2 * count THEN "daily"
    ELSE IF 6 * count <= total /\ total <= 8 * count THEN "weekly"
    ELSE IF 13 * count <= total /\ total <= 17 * count THEN "biweekly"
    ELSE IF 28 * count <= total /\ total <= 32 * count THEN "monthly"
    ELSE IF 88 * count <= total /\ total <= 95 * count THEN "quarterly"
    ELSE IF 360 * count <= total /\ total <= 370 * count THEN "yearly"
    ELSE "unknown"

\* The frequency bucket of the mean gap total/count, in days.
frequencyOf(total, count) ==
    IF 0 <= total /\ total < 2 * count THEN "daily"
    ELSE IF 6 * count <= total /\ total <= 8 * count THEN "weekly"
    ELSE IF 13 * count <= total /\ total <= 17 * count THEN "biweekly"
    ELSE IF 28 * count <= total /\ total <= 32 * count THEN "monthly"
    ELSE IF 88 * count <= total /\ total <= 95 * count THEN "quarterly"
    ELSE IF 360 * count <= total /\ total <= 370 * count THEN "yearly"
    ELSE "unknown"

\* A confidence c is carried as the rational (1 - c)^2, the squared
\* coefficient of variation clipped at 1: c = max(0, 1 - sqrt(variance)/mean).
\* A zero mean makes the source divide 0.0 by 0.0; max(0.0, NaN) is 0.0.
ZeroConfidence == <<1, 1>>
\* confidenceOf without max(0.0, ...)
confidenceOfUnclipped(total, sumSquares, count) ==
    IF total = 0 THEN ZeroConfidence
    ELSE <<count * sumSquares - total * total, total * total>>

\* confidenceOf reading a zero mean with no deviation as no variation at all
confidenceOfOneForZeroMean(total, sumSquares, count) ==
    LET varianceN == count * sumSquares - total * total
        meanSqN == total * total
    IN IF total = 0 THEN <<0, 1>>
       ELSE IF varianceN >= meanSqN THEN ZeroConfidence
       ELSE <<varianceN, meanSqN>>

confidenceOf(total, sumSquares, count) ==
    LET varianceN == count * sumSquares - total * total   \* variance * count^2
        meanSqN == total * total                          \* mean^2 * count^2
    IN IF total = 0 \/ varianceN >= meanSqN THEN ZeroConfidence
       ELSE <<varianceN, meanSqN>>

RECURSIVE GCD(_, _)
GCD(a, b) == IF b = 0 THEN a ELSE GCD(b, a % b)
\* ((100 - bound)/100)^2 in lowest terms: the square of 1 - bound/100
SquaredComplement(bound) ==
    LET k == (100 - bound) * (100 - bound)
        g == GCD(10000, k)
    IN <<k \div g, 10000 \div g>>

\* `confidence >= bound/100` in the place of `confidence > bound/100`
ConfidenceAtLeast(confidence, bound) == RatLeq(confidence, SquaredComplement(bound))

\* confidence > bound/100, for 0 <= bound <= 100.
ConfidenceAbove(confidence, bound) == RatLess(confidence, SquaredComplement(bound))

determineFrequency(intervals) ==
    IF intervals = <<>> THEN <<"unknown", ZeroConfidence>>
    ELSE LET count == Len(intervals)
             total == reduceSum(intervals)
             sumSquares == reduceSum([i \in DOMAIN intervals |-> intervals[i] * intervals[i]])
         IN <<frequencyOf(total, count), confidenceOf(total, sumSquares, count)>>

\* Double arithmetic on amounts.  A Double keeps 53 significant bits and
\* rounds every result to the nearest value it can hold, ties to the even
\* one; the model keeps SignificandBits bits, so that sums of its whole
\* amounts round as sums of fractional amounts do in the source.
\* ulpOf(n): the spacing of the representable values around n >= 0.
RECURSIVE ulpOf(_)
ulpOf(n) == IF n < 2^SignificandBits THEN 1 ELSE 2 * ulpOf(n \div 2)

\* n / u to the nearest integer, ties to even
roundToNearestEven(n, u) ==
    LET q == n \div u
        r == n % u
    IN IF 2 * r < u THEN q
       ELSE IF 2 * r > u THEN q + 1
       ELSE IF q % 2 = 0 THEN q ELSE q + 1

rounded(n) == LET u == ulpOf(n) IN roundToNearestEven(n, u) * u

\* reduce(0) { $0 + $1.amount }: a left fold, every sum rounded
RECURSIVE reduceAmounts(_)
reduceAmounts(expenses) ==
    IF expenses = <<>> THEN 0
    ELSE LET n == Len(expenses)
         IN rounded(reduceAmounts(SubSeq(expenses, 1, n - 1)) + expenses[n].amount)

\* total / Double(count) as a Double, for total >= 0 and count > 0
RECURSIVE doubleQuotient(_, _)
doubleQuotient(total, count) ==
    IF total = 0 THEN <<0, 1>>
    ELSE IF total < 2^(SignificandBits - 1) * count
         THEN LET half == doubleQuotient(2 * total, count) IN <<half[1], 2 * half[2]>>
    ELSE IF total >= 2^SignificandBits * count
         THEN LET twice == doubleQuotient(total, 2 * count) IN <<2 * twice[1], twice[2]>>
    ELSE <<roundToNearestEven(total, count), 1>>

\* The average is carried as the Double total and the count; its value is
\* doubleQuotient of the two.
calculateAverageAmount(expenses) ==
    <<reduceAmounts(expenses), Len(expenses)>>

(***************************************************************************)
(* Calendar.current.date(byAdding:value:to:) on day numbers: the Gregorian *)
(* calendar from 2024-01-01 (day 0); a day of the month past the end of    *)
(* the target month is clamped to its last day.                            *)
(***************************************************************************)
EpochYear == 2024
IsLeap(y) == y % 4 = 0 /\ (y % 100 # 0 \/ y % 400 = 0)
DaysInYear(y) == IF IsLeap(y) THEN 366 ELSE 365
DaysInMonth(y, m) ==
    IF m = 2 THEN (IF IsLeap(y) THEN 29 ELSE 28)
    ELSE IF m \in {4, 6, 9, 11} THEN 30 ELSE 31

RECURSIVE yearOf(_, _)
yearOf(d, y) == IF d < DaysInYear(y) THEN <<y, d>> ELSE yearOf(d - DaysInYear(y), y + 1)
RECURSIVE monthOf(_, _, _)
monthOf(d, y, m) ==
    IF d < DaysInMonth(y, m) THEN <<m, d + 1>> ELSE monthOf(d - DaysInMonth(y, m), y, m + 1)
\* <<year, month, day of month>> of a day number
ToYMD(d) ==
    LET yd == yearOf(d, EpochYear)
        md == monthOf(yd[2], yd[1], 1)
    IN <<yd[1], md[1], md[2]>>
RECURSIVE daysBeforeYear(_)
daysBeforeYear(y) == IF y = EpochYear THEN 0 ELSE DaysInYear(y - 1) + daysBeforeYear(y - 1)
RECURSIVE daysBeforeMonth(_, _)
daysBeforeMonth(y, m) == IF m = 1 THEN 0 ELSE DaysInMonth(y, m - 1) + daysBeforeMonth(y, m - 1)
FromYMD(y, m, dom) == daysBeforeYear(y) + daysBeforeMonth(y, m) + dom - 1

AddDays(date, value) == date + value
AddMonths(date, value) ==
    LET ymd == ToYMD(date)
        m0 == ymd[2] - 1 + value
        y == ymd[1] + (m0 \div 12)
        m == (m0 % 12) + 1
        last == DaysInMonth(y, m)
    IN FromYMD(y, m, IF ymd[3] > last THEN last ELSE ymd[3])
AddYears(date, value) == AddMonths(date, 12 * value)

\* predictNextOccurrence counting a month as 30 days and a year as 365
predictNextOccurrenceInDays(expenses, frequency) ==
    IF expenses = <<>> THEN None
    ELSE LET lastDate == expenses[Len(expenses)].date
         IN CASE frequency = "daily" -> Some(AddDays(lastDate, 1))
              [] frequency = "weekly" -> Some(AddDays(lastDate, 7))
              [] frequency = "biweekly" -> Some(AddDays(lastDate, 14))
              [] frequency = "monthly" -> Some(AddDays(lastDate, 30))
              [] frequency = "quarterly" -> Some(AddDays(lastDate, 90))
              [] frequency = "yearly" -> Some(AddDays(lastDate, 365))
              [] OTHER -> None

predictNextOccurrence(expenses, frequency) ==
    IF expenses = <<>> THEN None
    ELSE LET lastDate == expenses[Len(expenses)].date
         IN CASE frequency = "daily" -> Some(AddDays(lastDate, 1))
              [] frequency = "weekly" -> Some(AddDays(lastDate, 7))
              [] frequency = "biweekly" -> Some(AddDays(lastDate, 14))
              [] frequency = "monthly" -> Some(AddMonths(lastDate, 1))
              [] frequency = "quarterly" -> Some(AddMonths(lastDate, 3))
              [] frequency = "yearly" -> Some(AddYears(lastDate, 1))
              [] OTHER -> None

\* minimum confidence of a pattern, in hundredths
minConfidence == 60

\* An Optional RecurringPattern; uuid is the value UUID() returns.
detectPattern(expense, similarExpenses, uuid) ==
    LET allExpenses == <<expense>> \o similarExpenses
        sortedExpenses == sortedByDate(allExpenses)
    IN IF ~(Len(sortedExpenses) >= 2) THEN None
       ELSE LET intervals == calculateIntervals(sortedExpenses)
                fc == determineFrequency(intervals)
                frequency == fc[1]
                confidence == fc[2]
            IN IF ~ConfidenceAbove(confidence, minConfidence) THEN None
               ELSE Some([id |-> uuid,
                          title |-> OrElse(expense.title, <<"U", "n", "k", "n", "o", "w", "n">>),
                          category |-> OrElse(expense.category, "Other"),
                          averageAmount |-> calculateAverageAmount(sortedExpenses),
                          frequency |-> frequency,
                          confidence |-> confidence,
                          lastOccurrence |-> sortedExpenses[Len(sortedExpenses)].date,
                          nextPredicted |-> predictNextOccurrence(sortedExpenses, frequency)])

\* What the part of analyzeExpenseForPatterns before `await MainActor.run`
\* computes: the cluster, and the pattern when there is one.
minSimilar == 2
\* analysis asking for one similar expense only
analysisAcceptsOneSimilar(e, h, uuid) ==
    LET similarExpenses == findSimilarExpenses(Store[e], Records(h))
    IN [similar |-> IdsOf(similarExpenses),
        pattern |-> IF Len(similarExpenses) >= 1
                    THEN detectPattern(Store[e], similarExpenses, uuid)
                    ELSE None]

analysis(e, h, uuid) ==
    LET similarExpenses == findSimilarExpenses(Store[e], Records(h))
    IN [similar |-> IdsOf(similarExpenses),
        pattern |-> IF Len(similarExpenses) >= minSimilar
                    THEN detectPattern(Store[e], similarExpenses, uuid)
                    ELSE None]

\* One element of `inputs`, a set of (expense, allExpenses) argument pairs,
\* for every distinct value of key: pairs of equal key stand for each other.
Representatives(inputs, key) ==
    {CHOOSE x \in inputs : key[x] = k : k \in {key[x] : x \in inputs}}

\* One argument pair for every distinct pattern analyze detects for an
\* expense: the steps of the registry depend on the arguments through the
\* expense and that pattern alone, so the other pairs reach no further state.
AnalyzeInputs ==
    Representatives(ExpenseIds \X Histories,
                    [x \in ExpenseIds \X Histories |->
                        <<x[1], analysis(x[1], x[2], 0).pattern>>])

(***************************************************************************)
(* The registry.                                                           *)
(***************************************************************************)
Idle == [phase |-> "idle"]

\* The thread of the main actor and a thread of a caller off the main actor.
Threads == {"main", "caller"}

\* The view model after its construction, and no thread inside the registry.
HostInit ==
    /\ inserted = {}
    /\ persisted = {}
    /\ fetched = {}
    /\ checks = {}
    /\ analyses = <<>>
    /\ running = [th \in Threads |-> Idle]

Call(op, e, sid, outcome) ==
    [op |-> op, expense |-> e, suggestion |-> sid, outcome |-> outcome]

SuggestionIds == {suggestions[i].id : i \in DOMAIN suggestions}
PatternIds == {detectedPatterns[i].id : i \in DOMAIN detectedPatterns}
SuggestionsFor(e) == {i \in DOMAIN suggestions : suggestions[i].expense = e}

Init ==
    /\ isRecurring \in [ExpenseIds -> BOOLEAN]
    /\ detectedPatterns = <<>>
    /\ suggestions = <<>>
    /\ tasks = {}
    /\ nextUuid = 1
    /\ lastOp = Call("none", 0, 0, "none")
    /\ probe = Idle
    /\ HostInit

\* The registry after its construction, with no expense recurring.
RegistryInit ==
    /\ isRecurring = [e \in ExpenseIds |-> FALSE]
    /\ detectedPatterns = <<>>
    /\ suggestions = <<>>
    /\ tasks = {}
    /\ nextUuid = 1
    /\ lastOp = Call("none", 0, 0, "none")
    /\ HostInit

\* analyzeExpenseForPatterns up to its suspension at `await MainActor.run`,
\* or to its end when no pattern is detected.
AnalyzeCompute(e, h) ==
    /\ Cardinality(tasks) < MaxInflight
    /\ nextUuid + 1 + Cardinality(tasks) <= MaxUuid
    /\ LET a == analysis(e, h, nextUuid)
       IN IF a.pattern = None
          THEN /\ lastOp' = Call("analyze", e, 0, "none")
               /\ UNCHANGED <<tasks, nextUuid>>
          ELSE /\ tasks' = tasks \cup {[expense |-> e, pattern |-> a.pattern[1]]}
               /\ nextUuid' = nextUuid + 1
               /\ lastOp' = Call("compute", e, 0, "pending")
    /\ UNCHANGED <<isRecurring, detectedPatterns, suggestions, probe>>
    /\ UNCHANGED hostVars

\* a suggestion whatever the flag
shouldSuggestAlways(e) == TRUE

\* a suggestion from the first analysis of the process only
shouldSuggestFirstOnly(e) == ~isRecurring[e] /\ nextUuid <= 2

\* `if !expense.isRecurring`, read when the main-actor block runs
shouldSuggest(e) == ~isRecurring[e]

\* a suggestion identified by its expense
RecurringSuggestionIdOfExpense(uuid, e, pattern, confidence) ==
    [id |-> e, expense |-> e, pattern |-> pattern, confidence |-> confidence]

\* a suggestion of confidence 0 whatever the pattern's
RecurringSuggestionZeroConfidence(uuid, e, pattern, confidence) ==
    [id |-> uuid, expense |-> e, pattern |-> pattern, confidence |-> ZeroConfidence]

\* RecurringSuggestion(expense:pattern:confidence:); its id is a fresh UUID().
RecurringSuggestion(uuid, e, pattern, confidence) ==
    [id |-> uuid, expense |-> e, pattern |-> pattern, confidence |-> confidence]

\* The block analyzeExpenseForPatterns runs on the main actor.
AnalyzeCommit(t) ==
    /\ t \in tasks
    /\ tasks' = tasks \ {t}
    /\ detectedPatterns' =
           IF ~(\E i \in DOMAIN detectedPatterns : detectedPatterns[i].id = t.pattern.id)
           THEN Append(detectedPatterns, t.pattern)
           ELSE detectedPatterns
    /\ IF shouldSuggest(t.expense)
       THEN /\ suggestions' = Append(suggestions,
                                     RecurringSuggestion(nextUuid, t.expense, t.pattern,
                                                         t.pattern.confidence))
            /\ nextUuid' = nextUuid + 1
            /\ lastOp' = Call("analyze", t.expense, nextUuid, "suggested")
       ELSE /\ UNCHANGED <<suggestions, nextUuid>>
            /\ lastOp' = Call("analyze", t.expense, 0, "stored")
    /\ UNCHANGED <<isRecurring, probe>>
    /\ UNCHANGED hostVars

\* markAsRecurring removing the first suggestion of the expense only
promotedSuggestionsFirstOnly(e) ==
    LET hits == {i \in DOMAIN suggestions : suggestions[i].expense = e}
    IN IF hits = {} THEN suggestions
       ELSE LET k == CHOOSE i \in hits : \A j \in hits : i <= j
            IN SubSeq(suggestions, 1, k - 1) \o SubSeq(suggestions, k + 1, Len(suggestions))

\* markAsRecurring flagging only an expense some suggestion references
promotedFlagsIfReferenced(e) ==
    IF \E i \in DOMAIN suggestions : suggestions[i].expense = e
    THEN [isRecurring EXCEPT ![e] = TRUE]
    ELSE isRecurring

\* markAsRecurring leaving the suggestions as they are
promotedSuggestionsKept(e) == suggestions

\* markAsRecurring flagging every expense of the store
promotedFlagsOfAll(e) == [o \in ExpenseIds |-> TRUE]

\* The two statements of markAsRecurring: the suggestions and the flags after.
\* removeAll { $0.expense.id == expense.id } keeps the others, in order.
promotedSuggestions(e) == SelectSeq(suggestions, LAMBDA s : ~(s.expense = e))
promotedFlags(e) == [isRecurring EXCEPT ![e] = TRUE]

markAsRecurring(e) ==
    /\ suggestions' = promotedSuggestions(e)
    /\ isRecurring' = promotedFlags(e)
    /\ lastOp' = Call("promote", e, 0, IF SuggestionsFor(e) = {} THEN "unreferenced" ELSE "removed")
    /\ UNCHANGED <<detectedPatterns, tasks, nextUuid, probe>>
    /\ UNCHANGED hostVars

\* sid is the id of the RecurringSuggestion value the caller holds.
\* dismissSuggestion removing every suggestion of the dismissed one's expense
dismissedSuggestionsOfExpense(sid) ==
    SelectSeq(suggestions,
              LAMBDA s : ~(\E i \in DOMAIN suggestions :
                               suggestions[i].id = sid /\ suggestions[i].expense = s.expense))

\* dismissSuggestion falling back to the last suggestion for an unknown id
dismissedSuggestionsOrLast(sid) ==
    IF \E i \in DOMAIN suggestions : suggestions[i].id = sid
    THEN SelectSeq(suggestions, LAMBDA s : ~(s.id = sid))
    ELSE SubSeq(suggestions, 1, Len(suggestions) - 1)

\* removeAll { $0.id == suggestion.id }
dismissedSuggestions(sid) == SelectSeq(suggestions, LAMBDA s : ~(s.id = sid))

dismissSuggestion(sid) ==
    /\ suggestions' = dismissedSuggestions(sid)
    /\ lastOp' = Call("dismiss", 0, sid, IF sid \in SuggestionIds THEN "removed" ELSE "unknown")
    /\ UNCHANGED <<isRecurring, detectedPatterns, tasks, nextUuid, probe>>
    /\ UNCHANGED hostVars

Next ==
    \/ \E x \in AnalyzeInputs : AnalyzeCompute(x[1], x[2])
    \/ \E t \in tasks : AnalyzeCommit(t)
    \/ \E e \in ExpenseIds : markAsRecurring(e)
    \/ \E sid \in 1..(nextUuid - 1) : dismissSuggestion(sid)

\* Spec takes every call of the registry as one step: the callers are jobs of
\* the main actor, like the block analyzeExpenseForPatterns runs there.
Spec == Init /\ [][Next]_vars

(***************************************************************************)
(* The registry under callers on any thread.  RecurringExpenseDetector is  *)
(* a class without actor isolation and without a lock: only the block of   *)
(* analyzeExpenseForPatterns is sent to the main actor, markAsRecurring    *)
(* and dismissSuggestion run on the thread of their caller.  A job of the  *)
(* main actor starts when the main thread is idle; a caller off the main   *)
(* actor starts at any time (the callers on the main actor are those of    *)
(* Spec).  An access of a collection is one step, so a removeAll is a read *)
(* followed by a write.                                                    *)
(***************************************************************************)
Crashed == [phase |-> "crashed"]
Alive == \A th \in Threads : running[th] # Crashed

\* Lines 18-20 of the block: the test of detectedPatterns and the append.
MainActorRunStorePattern(t) ==
    /\ Alive
    /\ running["main"] = Idle
    /\ t \in tasks
    /\ tasks' = tasks \ {t}
    /\ detectedPatterns' =
           IF ~(\E i \in DOMAIN detectedPatterns : detectedPatterns[i].id = t.pattern.id)
           THEN Append(detectedPatterns, t.pattern)
           ELSE detectedPatterns
    /\ running' = [running EXCEPT !["main"] =
                       [phase |-> "block", expense |-> t.expense, pattern |-> t.pattern]]
    /\ UNCHANGED <<isRecurring, suggestions, nextUuid, lastOp, probe, appVars>>

\* Lines 23-30 of the block: the test of isRecurring and the append.
MainActorRunSuggest ==
    /\ Alive
    /\ running["main"].phase = "block"
    /\ LET t == running["main"]
       IN IF shouldSuggest(t.expense)
          THEN /\ suggestions' = Append(suggestions,
                                        RecurringSuggestion(nextUuid, t.expense, t.pattern,
                                                            t.pattern.confidence))
               /\ nextUuid' = nextUuid + 1
          ELSE UNCHANGED <<suggestions, nextUuid>>
    /\ running' = [running EXCEPT !["main"] = Idle]
    /\ UNCHANGED <<isRecurring, detectedPatterns, tasks, lastOp, probe, appVars>>

\* The read of suggestions that starts a removeAll of dismissSuggestion
\* (op "dismiss", key a suggestion id) or of markAsRecurring (op "promote",
\* key an expense).
RemoveAllRead(th, op, key) ==
    /\ Alive
    /\ running[th] = Idle
    /\ running' = [running EXCEPT ![th] =
                       [phase |-> op, key |-> key, read |-> suggestions]]
    /\ UNCHANGED <<isRecurring, detectedPatterns, suggestions, tasks, nextUuid, lastOp,
                   probe, appVars>>

removed(op, key, list) ==
    IF op = "dismiss"
    THEN SelectSeq(list, LAMBDA s : ~(s.id = key))
    ELSE SelectSeq(list, LAMBDA s : ~(s.expense = key))

\* The write that ends the removeAll, and for markAsRecurring the
\* assignment of the flag.  When another thread has written suggestions
\* since the read, the accesses race: the write stores the filtered list
\* that was read (losing the other write), or the filtered current list, or
\* the process stops on the corrupted array.
RemoveAllWrite(th) ==
    /\ Alive
    /\ running[th].phase \in {"dismiss", "promote"}
    /\ LET r == running[th]
           outcomes == IF r.read = suggestions THEN {"written"}
                       ELSE {"written", "lost update", "crash"}
       IN \E outcome \in outcomes :
              IF outcome = "crash"
              THEN /\ running' = [running EXCEPT ![th] = Crashed]
                   /\ UNCHANGED <<suggestions, isRecurring>>
              ELSE /\ suggestions' = removed(r.phase, r.key,
                                            IF outcome = "lost update" THEN r.read
                                            ELSE suggestions)
                   /\ isRecurring' = IF r.phase = "promote"
                                     THEN [isRecurring EXCEPT ![r.key] = TRUE]
                                     ELSE isRecurring
                   /\ running' = [running EXCEPT ![th] = Idle]
    /\ UNCHANGED <<detectedPatterns, tasks, nextUuid, lastOp, probe, appVars>>

RaceNext ==
    \/ \E x \in AnalyzeInputs : Alive /\ AnalyzeCompute(x[1], x[2])
    \/ \E t \in tasks : MainActorRunStorePattern(t)
    \/ MainActorRunSuggest
    \/ \E sid \in 1..(nextUuid - 1) : RemoveAllRead("caller", "dismiss", sid)
    \/ \E e \in ExpenseIds : RemoveAllRead("caller", "promote", e)
    \/ RemoveAllWrite("caller")

RaceInit == RegistryInit /\ probe = Idle

RaceSpec == RaceInit /\ [][RaceNext]_vars

(***************************************************************************)
(* The recording paths of the hosting application: addExpense and          *)
(* importExpensesFromCSV of ExpenseViewModel and saveExpense of the        *)
(* add-expense form, all on the main actor and on one managed object       *)
(* context.  An expense is the number of its creation; `saved` tells       *)
(* whether context.save() returns or throws.                               *)
(***************************************************************************)
created == Cardinality(inserted \cup persisted)

\* ExpenseViewModel.addExpense
addExpense(saved) ==
    /\ created + 1 <= MaxExpenses
    /\ LET expense == created + 1
       IN IF saved
          THEN /\ persisted' = persisted \cup inserted \cup {expense}
               /\ inserted' = {}
               /\ fetched' = persisted'
               /\ checks' = checks \cup {expense}
          ELSE /\ inserted' = inserted \cup {expense}
               /\ UNCHANGED <<persisted, fetched, checks>>
    /\ UNCHANGED <<isRecurring, detectedPatterns, suggestions, tasks, nextUuid, lastOp,
                   probe, analyses, running>>

\* AddExpenseView.saveExpense, past its validation of the form
saveExpense(saved) ==
    /\ created + 1 <= MaxExpenses
    /\ LET expense == created + 1
       IN IF saved
          THEN /\ persisted' = persisted \cup inserted \cup {expense}
               /\ inserted' = {}
               /\ checks' = checks \cup {expense}
          ELSE /\ inserted' = inserted \cup {expense}
               /\ UNCHANGED <<persisted, checks>>
    /\ UNCHANGED <<isRecurring, detectedPatterns, suggestions, tasks, nextUuid, lastOp,
                   probe, fetched, analyses, running>>

\* ExpenseViewModel.importExpensesFromCSV of a text with `rows` data rows
importExpensesFromCSV(rows, saved) ==
    /\ created + rows <= MaxExpenses
    /\ LET imported == (created + 1)..(created + rows)
       IN IF saved
          THEN /\ persisted' = persisted \cup inserted \cup imported
               /\ inserted' = {}
               /\ fetched' = persisted'
          ELSE /\ inserted' = inserted \cup imported
               /\ UNCHANGED <<persisted, fetched>>
    /\ UNCHANGED <<isRecurring, detectedPatterns, suggestions, tasks, nextUuid, lastOp,
                   probe, checks, analyses, running>>

\* The Task of addExpense or saveExpense runs checkForRecurringPattern, which
\* calls analyzeExpenseForPatterns(expense, allExpenses: expenses).
checkForRecurringPattern(expense) ==
    /\ expense \in checks
    /\ checks' = checks \ {expense}
    /\ analyses' = Append(analyses, [expense |-> expense, allExpenses |-> fetched])
    /\ UNCHANGED <<isRecurring, detectedPatterns, suggestions, tasks, nextUuid, lastOp,
                   probe, inserted, persisted, fetched, running>>

RunCheck == \E expense \in checks : checkForRecurringPattern(expense)

AppInit == RegistryInit /\ probe = Idle

AppNext ==
    \/ \E saved \in BOOLEAN : addExpense(saved)
    \/ \E saved \in BOOLEAN : saveExpense(saved)
    \/ \E rows \in 1..MaxRows, saved \in BOOLEAN : importExpensesFromCSV(rows, saved)
    \/ RunCheck

\* A spawned Task is run by the main actor in the end.
AppSpec == AppInit /\ [][AppNext]_vars /\ WF_vars(RunCheck)

(***************************************************************************)
(* One analysis on each of two freshly constructed registries, with the    *)
(* same arguments; UUID() goes on giving new values.                       *)
(***************************************************************************)
\* The lists of a fresh registry after analyzeExpenseForPatterns has run to
\* its end, and the number of UUID() calls it made.
analyzedOnFresh(e, h) ==
    LET pattern == analysis(e, h, nextUuid).pattern
    IN IF pattern = None
       THEN [detectedPatterns |-> <<>>, suggestions |-> <<>>, uuids |-> 0]
       ELSE IF shouldSuggest(e)
            THEN [detectedPatterns |-> <<pattern[1]>>,
                  suggestions |-> <<RecurringSuggestion(nextUuid + 1, e, pattern[1],
                                                        pattern[1].confidence)>>,
                  uuids |-> 2]
            ELSE [detectedPatterns |-> <<pattern[1]>>, suggestions |-> <<>>, uuids |-> 1]

\* analyzeExpenseForPatterns on the first registry
FirstAnalyze(e, h) ==
    /\ probe = Idle
    /\ LET after == analyzedOnFresh(e, h)
       IN /\ detectedPatterns' = after.detectedPatterns
          /\ suggestions' = after.suggestions
          /\ nextUuid' = nextUuid + after.uuids
    /\ probe' = [phase |-> "first", expense |-> e, allExpenses |-> h]
    /\ UNCHANGED <<isRecurring, tasks, lastOp, hostVars>>

\* RecurringExpenseDetector(): the second registry, its lists empty
SecondRegistry ==
    /\ probe.phase = "first"
    /\ probe' = [phase |-> "second", expense |-> probe.expense,
                 allExpenses |-> probe.allExpenses,
                 first |-> [detectedPatterns |-> detectedPatterns,
                            suggestions |-> suggestions]]
    /\ detectedPatterns' = <<>>
    /\ suggestions' = <<>>
    /\ UNCHANGED <<isRecurring, tasks, nextUuid, lastOp, hostVars>>

\* analyzeExpenseForPatterns on the second registry, with the same arguments
SecondAnalyze ==
    /\ probe.phase = "second"
    /\ LET after == analyzedOnFresh(probe.expense, probe.allExpenses)
       IN /\ detectedPatterns' = after.detectedPatterns
          /\ suggestions' = after.suggestions
          /\ nextUuid' = nextUuid + after.uuids
    /\ probe' = [probe EXCEPT !.phase = "both"]
    /\ UNCHANGED <<isRecurring, tasks, lastOp, hostVars>>

TwinNext ==
    \/ \E e \in ExpenseIds, h \in Histories : FirstAnalyze(e, h)
    \/ SecondRegistry
    \/ SecondAnalyze

TwinSpec == Init /\ [][TwinNext]_vars

(***************************************************************************)
(* Runs of the pure functions on bounded inputs.                           *)
(***************************************************************************)
Alphabet == {"a", "b"}
\* "Netflix" and two titles at distances 4 and 5 of it
LongTitles == {Netflix, <<"N", "e", "t">>, <<"N", "e">>}
ProbeTitles ==
    {None} \cup {Some(t) : t \in LongTitles \cup UNION {[1..n -> Alphabet] : n \in 0..MaxTitleLen}}
ProbeCategories == {None, Some("Other"), Some("Food")}
ProbeExpenses ==
    {Expense(0, amount, title, category, 0) :
        amount \in 0..MaxAmount, title \in ProbeTitles, category \in ProbeCategories}

SimInit ==
    /\ RegistryInit
    /\ probe \in {[phase |-> "input", a |-> a, b |-> b] : a \in ProbeExpenses, b \in ProbeExpenses}

\* calculateSimilarity on the pair, in both orders
ScoreSimilarity ==
    /\ probe.phase = "input"
    /\ probe' = [phase |-> "scored", a |-> probe.a, b |-> probe.b,
                 amount |-> amountSimilarity(probe.a.amount, probe.b.amount),
                 title |-> stringSimilarity(OrElse(probe.a.title, <<>>),
                                            OrElse(probe.b.title, <<>>)),
                 category |-> categorySimilarity(probe.a.category, probe.b.category),
                 ab |-> calculateSimilarity(probe.a, probe.b),
                 ba |-> calculateSimilarity(probe.b, probe.a)]
    /\ UNCHANGED <<isRecurring, detectedPatterns, suggestions, tasks, nextUuid, lastOp>>
    /\ UNCHANGED hostVars

SimNext == ScoreSimilarity

SimSpec == SimInit /\ [][SimNext]_vars

\* findSimilarExpenses on a target and a history: expenses of one title with
\* two ids, so that the history can hold the target's id, and amounts whose
\* pairs score below, at and above the threshold, and the amounts 10 and 1000.
FarAmounts == {10, 1000}
ClusterExpenses ==
    {Expense(id, amount, Some(<<"a">>), category, 0) :
        id \in 1..2,
        amount \in (1..(MaxAmount + 1)) \cup FarAmounts,
        category \in {Some("Food"), Some("Other")}}

ClusterInit ==
    /\ RegistryInit
    /\ probe \in {[phase |-> "cluster input", target |-> target, history |-> history] :
                     target \in ClusterExpenses,
                     history \in UNION {[1..n -> ClusterExpenses] : n \in 0..MaxClusterHistory}}

FindCluster ==
    /\ probe.phase = "cluster input"
    /\ probe' = [phase |-> "clustered", target |-> probe.target, history |-> probe.history,
                 cluster |-> findSimilarExpenses(probe.target, probe.history),
                 pattern |-> LET similarExpenses ==
                                     findSimilarExpenses(probe.target, probe.history)
                             IN IF Len(similarExpenses) >= minSimilar
                                THEN detectPattern(probe.target, similarExpenses, nextUuid)
                                ELSE None]
    /\ UNCHANGED <<isRecurring, detectedPatterns, suggestions, tasks, nextUuid, lastOp>>
    /\ UNCHANGED hostVars

ClusterNext == FindCluster

ClusterSpec == ClusterInit /\ [][ClusterNext]_vars

\* determineFrequency on a list of gaps, in days: the ends of every range of
\* the switch and values between the ranges.
ProbeGaps == {0, 1, 2, 5, 6, 8, 9, 13, 17, 28, 32, 33, 88, 95, 360, 370}

FreqInit ==
    /\ RegistryInit
    /\ probe \in {[phase |-> "gaps", intervals |-> intervals] :
                     intervals \in UNION {[1..n -> ProbeGaps] : n \in 0..MaxGaps}}

ClassifyGaps ==
    /\ probe.phase = "gaps"
    /\ LET fc == determineFrequency(probe.intervals)
       IN probe' = [phase |-> "classified", intervals |-> probe.intervals,
                    frequency |-> fc[1], confidence |-> fc[2]]
    /\ UNCHANGED <<isRecurring, detectedPatterns, suggestions, tasks, nextUuid, lastOp>>
    /\ UNCHANGED hostVars

FreqNext == ClassifyGaps

FreqSpec == FreqInit /\ [][FreqNext]_vars

\* detectPattern on a trigger and a list of similar expenses whose dates make
\* every frequency: days 0, 1, 2 (daily), 0, 2, 4 (unknown), 0, 7, 14,
\* 0, 14, 28, 0, 30, 60 and 28, 59, 90 (monthly, the latter ending on
\* 2024-03-31), 0, 90, 180 and 0, 365, 730.
PatternDates == {0, 1, 2, 4, 7, 14, 28, 30, 59, 60, 90, 180, 365, 730}
PatternExpense(id, date) == Expense(id, 10, Some(Netflix), Some("Entertainment"), date)

PatternInit ==
    /\ RegistryInit
    /\ probe \in {[phase |-> "pattern input",
                    expense |-> PatternExpense(1, date),
                    similarExpenses |-> [i \in DOMAIN dates |-> PatternExpense(i + 1, dates[i])]] :
                     date \in PatternDates,
                     dates \in UNION {[1..n -> PatternDates] : n \in 0..MaxSimilar}}

DetectPattern ==
    /\ probe.phase = "pattern input"
    /\ probe' = [phase |-> "detected", expense |-> probe.expense,
                 similarExpenses |-> probe.similarExpenses,
                 pattern |-> detectPattern(probe.expense, probe.similarExpenses, 1)]
    /\ UNCHANGED <<isRecurring, detectedPatterns, suggestions, tasks, nextUuid, lastOp>>
    /\ UNCHANGED hostVars

PatternNext == DetectPattern

PatternSpec == PatternInit /\ [][PatternNext]_vars

\* analyzeExpenseForPatterns on one trigger with one history in two orders.
\* The history holds an expense every OrderGap days, the trigger comes one
\* gap after the last; the expenses at TiedAt and TiedAt + 1 are of one day
\* or OrderShift days apart.  The first expense may be of an amount too far
\* to be similar.
OrderGap == 33
OrderShift == 8
TiedAt == 5
OrderAmounts == {90, 91, 97, 100}
OrderExpense(id, amount, date) == Expense(id, amount, Some(<<"a">>), Some("Food"), date)

OrderHistories ==
    {[i \in 1..MaxOrderHistory |->
         OrderExpense(i + 1,
                      IF i = 1 THEN first
                      ELSE IF i = TiedAt THEN x
                      ELSE IF i = TiedAt + 1 THEN y
                      ELSE 100,
                      IF i <= TiedAt THEN OrderGap * (i - 1)
                      ELSE IF i = TiedAt + 1 THEN OrderGap * (TiedAt - 1) + shift
                      ELSE OrderGap * (i - 2))] :
        first \in {10, 100}, x \in OrderAmounts, y \in OrderAmounts,
        shift \in {0, OrderShift}}

\* Reorderings of a history: reversed, the two neighbours at TiedAt swapped,
\* and rotated by one.
OrderPermutations ==
    { [i \in 1..MaxOrderHistory |-> MaxOrderHistory + 1 - i],
      [i \in 1..MaxOrderHistory |->
          IF i = TiedAt THEN TiedAt + 1 ELSE IF i = TiedAt + 1 THEN TiedAt ELSE i],
      [i \in 1..MaxOrderHistory |-> (i % MaxOrderHistory) + 1] }

OrderInit ==
    /\ RegistryInit
    /\ probe \in {[phase |-> "order input",
                    expense |-> OrderExpense(1, 100, OrderGap * (MaxOrderHistory - 1)),
                    allExpenses |-> history,
                    reordered |-> [i \in 1..MaxOrderHistory |-> history[permutation[i]]]] :
                     history \in OrderHistories, permutation \in OrderPermutations}

\* What analyzeExpenseForPatterns arrives at for a trigger and a history:
\* the cluster, the pattern if any, and whether it appends a suggestion.
analysisOfRecords(expense, allExpenses, uuid) ==
    LET similarExpenses == findSimilarExpenses(expense, allExpenses)
        pattern == IF Len(similarExpenses) >= minSimilar
                   THEN detectPattern(expense, similarExpenses, uuid)
                   ELSE None
    IN [similar |-> similarExpenses,
        pattern |-> pattern,
        suggested |-> pattern # None /\ shouldSuggest(expense.id)]

AnalyzeBothOrders ==
    /\ probe.phase = "order input"
    /\ probe' = [phase |-> "ordered", expense |-> probe.expense,
                 allExpenses |-> probe.allExpenses, reordered |-> probe.reordered,
                 first |-> analysisOfRecords(probe.expense, probe.allExpenses, nextUuid),
                 second |-> analysisOfRecords(probe.expense, probe.reordered, nextUuid)]
    /\ UNCHANGED <<isRecurring, detectedPatterns, suggestions, tasks, nextUuid, lastOp>>
    /\ UNCHANGED hostVars

OrderNext == AnalyzeBothOrders

OrderSpec == OrderInit /\ [][OrderNext]_vars

(***************************************************************************)
(* getUpcomingRecurring, a query of the stored patterns at the time `now`. *)
(***************************************************************************)
\* the days of the window: `byAdding: .day, value: 7`
upcomingDays == 7

\* the filter with `nextDate < nextWeek`
inNextWeekBeforeEnd(pattern, now) ==
    LET nextWeek == AddDays(now, upcomingDays)
    IN /\ pattern.nextPredicted # None
       /\ pattern.nextPredicted[1] >= now /\ pattern.nextPredicted[1] < nextWeek

\* the closure of filter
inNextWeek(pattern, now) ==
    LET nextWeek == AddDays(now, upcomingDays)
    IN /\ pattern.nextPredicted # None
       /\ pattern.nextPredicted[1] >= now /\ pattern.nextPredicted[1] <= nextWeek

\* sorted by nextPredicted; patterns of equal dates keep their order.
RECURSIVE sortedByNextPredicted(_)
sortedByNextPredicted(patterns) ==
    IF patterns = <<>> THEN <<>>
    ELSE LET n == Len(patterns)
             x == patterns[n]
             front == sortedByNextPredicted(SubSeq(patterns, 1, n - 1))
             k == Cardinality({i \in DOMAIN front :
                                  ~(x.nextPredicted[1] < front[i].nextPredicted[1])})
         IN SubSeq(front, 1, k) \o <<x>> \o SubSeq(front, k + 1, Len(front))

upcomingRecurring(now) ==
    sortedByNextPredicted(SelectSeq(detectedPatterns, LAMBDA pattern : inNextWeek(pattern, now)))

\* The patterns detectPattern builds for three expenses `gap` days apart,
\* the first on the day `start`: daily, unknown and weekly ones.
StoredPatterns(uuid) ==
    {detectPattern(PatternExpense(1, start + 2 * gap),
                   <<PatternExpense(2, start), PatternExpense(3, start + gap)>>, uuid)[1] :
        start \in 0..3, gap \in {1, 2, 7}}
\* The values of Date() and the windows callers of the specified
\* upcoming(withinDays) ask for.
NowDays == {3, 4, 14, 15, 17, 24, 25}
WithinDays == {1, 7, 30}

UpcomingInit ==
    /\ isRecurring = [e \in ExpenseIds |-> FALSE]
    /\ detectedPatterns \in UNION {{patterns \in [1..n -> UNION {StoredPatterns(i) : i \in 1..n}] :
                                        \A i \in 1..n : patterns[i].id = i} : n \in 0..MaxStored}
    /\ suggestions = <<>>
    /\ tasks = {}
    /\ nextUuid = Len(detectedPatterns) + 1
    /\ lastOp = Call("none", 0, 0, "none")
    /\ probe = Idle
    /\ HostInit

\* getUpcomingRecurring() at the time `now`.  withinDays is the window the
\* caller wants; the function has no parameter to take it.
getUpcomingRecurring(now, withinDays) ==
    /\ probe' = [phase |-> "upcoming", now |-> now, withinDays |-> withinDays,
                 result |-> upcomingRecurring(now)]
    /\ UNCHANGED <<isRecurring, detectedPatterns, suggestions, tasks, nextUuid, lastOp>>
    /\ UNCHANGED hostVars

UpcomingNext == \E now \in NowDays, withinDays \in WithinDays : getUpcomingRecurring(now, withinDays)

UpcomingSpec == UpcomingInit /\ [][UpcomingNext]_vars

(***************************************************************************)
(* Properties.                                                             *)
(***************************************************************************)
SameButId(p, q) ==
    /\ p.title = q.title /\ p.category = q.category
    /\ p.averageAmount = q.averageAmount /\ p.frequency = q.frequency
    /\ p.confidence = q.confidence /\ p.lastOccurrence = q.lastOccurrence
    /\ p.nextPredicted = q.nextPredicted

\* C1: the stored pattern list never holds two patterns of one series, taken
\* here in the narrowest sense: two patterns equal in every field but the id.
C1_OnePatternPerSeries ==
    \A i, j \in DOMAIN detectedPatterns :
        i # j => ~SameButId(detectedPatterns[i], detectedPatterns[j])

\* The arguments of C2: the cluster of e in h is exactly `count` expenses of
\* e's title and category, one every 30 days before e.
ClusterEvery30Days(e, h, count) ==
    LET similar == analysis(e, h, 0).similar
    IN /\ Cardinality(similar) = count
       /\ \A o \in similar : /\ Store[o].title = Store[e].title
                             /\ Store[o].category = Store[e].category
       /\ {Store[e].date - Store[o].date : o \in similar} = {30 * k : k \in 1..count}
SameAnalysis(inputs) ==
    Representatives(inputs, [x \in inputs |-> <<x[1], analysis(x[1], x[2], 0)>>])
OneEarlier ==
    SameAnalysis({x \in ExpenseIds \X Histories :
                     /\ ClusterEvery30Days(x[1], x[2], 1)
                     /\ \A o \in analysis(x[1], x[2], 0).similar :
                            Store[o].amount = Store[x[1]].amount})
TwoEarlier ==
    SameAnalysis({x \in ExpenseIds \X Histories : ClusterEvery30Days(x[1], x[2], 2)})
OneSimilar ==
    SameAnalysis({x \in ExpenseIds \X Histories :
                     Cardinality(analysis(x[1], x[2], 0).similar) = 1})
AnalyzeOf(e) == lastOp'.op \in {"analyze", "compute"} /\ lastOp'.expense = e
MonthlyAndConfident(pattern) ==
    pattern.frequency = "monthly" /\ ConfidenceAbove(pattern.confidence, 60)

\* C2, as claimed: analyze on a non-recurring expense whose history holds
\* exactly one similar expense (same title, category and amount) 30 days
\* earlier detects a monthly pattern of confidence > 0.6 for a suggestion.
C2_TwoExpensesSuffice ==
    [][\A x \in OneEarlier :
          (~isRecurring[x[1]] /\ AnalyzeOf(x[1]) /\ AnalyzeCompute(x[1], x[2]))
              => \E t \in tasks' \ tasks : MonthlyAndConfident(t.pattern)]_vars

\* C2, amended: with exactly one similar expense in the history analyze ends
\* with nothing stored; with exactly two, 30 and 60 days earlier, it detects
\* a monthly pattern of confidence > 0.6, and the main-actor block appends a
\* suggestion holding that pattern when the expense is not recurring then.
C2_ThreeExpensesNeeded ==
    [][/\ \A x \in OneSimilar :
              (AnalyzeOf(x[1]) /\ AnalyzeCompute(x[1], x[2]))
                  => /\ lastOp'.outcome = "none"
                     /\ UNCHANGED <<detectedPatterns, suggestions, tasks>>
       /\ \A x \in TwoEarlier :
              (AnalyzeOf(x[1]) /\ AnalyzeCompute(x[1], x[2]))
                  => \E t \in tasks' \ tasks :
                         t.expense = x[1] /\ MonthlyAndConfident(t.pattern)
       /\ \A t \in tasks :
              (AnalyzeCommit(t) /\ ~isRecurring[t.expense])
                  => /\ Len(suggestions') = Len(suggestions) + 1
                     /\ suggestions'[Len(suggestions')].expense = t.expense
                     /\ suggestions'[Len(suggestions')].pattern = t.pattern]_vars

\* An analyze of expense 3 (day 60) with the expenses of days 0 and 30 as its
\* cluster has ended with a suggestion of a monthly pattern.
C2_Witness ==
    /\ lastOp.op = "analyze" /\ lastOp.outcome = "suggested" /\ lastOp.expense = 3
    /\ \E i \in DOMAIN suggestions :
           /\ suggestions[i].id = lastOp.suggestion
           /\ suggestions[i].pattern.averageAmount[2] = 3
           /\ suggestions[i].pattern.lastOccurrence = Store[3].date
           /\ MonthlyAndConfident(suggestions[i].pattern)

\* C3: no two pending suggestions reference the same expense.
C3_OneSuggestionPerExpense ==
    \A i, j \in DOMAIN suggestions :
        i # j => suggestions[i].expense # suggestions[j].expense

\* C4: an analyze of an expense whose isRecurring flag is true leaves the
\* suggestion list as it was, in the step that computes and in the step that
\* stores the pattern.
C4_NoSuggestionForRecurring ==
    [][(lastOp'.op \in {"analyze", "compute"} /\ isRecurring[lastOp'.expense])
           => suggestions' = suggestions]_vars

\* An analyze of a recurring expense has stored its pattern and no suggestion.
C4_Witness ==
    /\ lastOp.op = "analyze" /\ lastOp.outcome = "stored"
    /\ isRecurring[lastOp.expense]
    /\ detectedPatterns # <<>>
    /\ \A i \in DOMAIN suggestions : suggestions[i].expense # lastOp.expense

\* C5: promote removes every suggestion of the expense and sets its flag;
\* the other suggestions, the other flags and the patterns stay.
C5_PromoteFrame ==
    [][lastOp'.op = "promote" =>
          LET e == lastOp'.expense
          IN /\ suggestions' = SelectSeq(suggestions, LAMBDA s : s.expense # e)
             /\ isRecurring'[e]
             /\ \A o \in ExpenseIds \ {e} : isRecurring'[o] = isRecurring[o]
             /\ detectedPatterns' = detectedPatterns]_vars

\* A promote has removed suggestions and left one of another expense.
C5_Witness ==
    /\ lastOp.op = "promote" /\ lastOp.outcome = "removed"
    /\ suggestions # <<>>
    /\ detectedPatterns # <<>>

\* C6: dismiss removes the suggestion of that id and no other; the patterns
\* and the flags stay.
C6_DismissFrame ==
    [][lastOp'.op = "dismiss" =>
          LET sid == lastOp'.suggestion
          IN /\ suggestions' = SelectSeq(suggestions, LAMBDA s : s.id # sid)
             /\ Len(suggestions') >= Len(suggestions) - 1
             /\ detectedPatterns' = detectedPatterns
             /\ isRecurring' = isRecurring]_vars

\* A dismiss has removed one of two suggestions; both patterns are stored.
C6_Witness ==
    /\ lastOp.op = "dismiss" /\ lastOp.outcome = "removed"
    /\ Len(suggestions) = 1
    /\ Len(detectedPatterns) = 2

\* C7: dismiss of an id that is not pending (dismissed before, or never a
\* suggestion of the registry) leaves the suggestions and the patterns as
\* they were.
C7_DismissIdempotent ==
    [][(lastOp'.op = "dismiss" /\ lastOp'.suggestion \notin SuggestionIds)
           => UNCHANGED <<suggestions, detectedPatterns>>]_vars

\* A dismiss of the id of a suggestion removed before, with one still pending.
C7_Witness ==
    /\ lastOp.op = "dismiss" /\ lastOp.outcome = "unknown"
    /\ tasks = {}
    /\ lastOp.suggestion \notin PatternIds
    /\ suggestions # <<>>

\* C8, as claimed: promote of an expense no suggestion references changes
\* no suggestion, no pattern and no flag.
C8_PromoteUnknownNoOp ==
    [][(lastOp'.op = "promote" /\ SuggestionsFor(lastOp'.expense) = {})
           => UNCHANGED <<suggestions, detectedPatterns, isRecurring>>]_vars

\* C8, amended: promote of an expense no suggestion references changes no
\* suggestion and no pattern, and sets the flag of that expense alone.
C8_PromoteUnknownSetsFlag ==
    [][(lastOp'.op = "promote" /\ SuggestionsFor(lastOp'.expense) = {})
           => /\ UNCHANGED <<suggestions, detectedPatterns>>
              /\ isRecurring' = [isRecurring EXCEPT ![lastOp'.expense] = TRUE]]_vars

\* A promote of an expense no suggestion referenced, with suggestions pending.
C8_Witness ==
    /\ lastOp.op = "promote" /\ lastOp.outcome = "unreferenced"
    /\ isRecurring[lastOp.expense]
    /\ suggestions # <<>>
    /\ detectedPatterns # <<>>

\* C9: a suggestion enters the list in an analyze step only, and an id that
\* has been issued and is not pending is never pending again.
C9_SuggestionLifecycle ==
    [][/\ (SuggestionIds' \ SuggestionIds # {}) => lastOp'.op = "analyze"
       /\ \A id \in 1..(nextUuid - 1) :
              id \notin SuggestionIds => id \notin SuggestionIds']_vars

\* A second analyze has added the suggestion of id 4 after the suggestion of
\* id 2 was removed.
C9_Witness ==
    /\ lastOp.op = "analyze" /\ lastOp.outcome = "suggested"
    /\ lastOp.suggestion = 4
    /\ SuggestionIds = {4}

\* C10: calculateSimilarity gives the same value for (a, b) and (b, a).
C10_SimilaritySymmetric ==
    probe.phase = "scored" => RatEq(probe.ab, probe.ba)

\* A scored pair of different amounts and non-empty titles of different lengths.
C10_Witness ==
    /\ probe.phase = "scored"
    /\ probe.a.amount # probe.b.amount
    /\ probe.a.title # None /\ probe.b.title # None
    /\ Len(probe.a.title[1]) > Len(probe.b.title[1])
    /\ Len(probe.b.title[1]) > 0
    /\ probe.a.category # probe.b.category

\* r is a rational of the interval [0, 1]
InUnit(r) == r[2] > 0 /\ 0 <= r[1] /\ r[1] <= r[2]

\* C11: for expenses of non-negative amounts calculateSimilarity is within
\* [0, 1], and so is each of its three terms: amount, title and category.
C11_SimilarityBounded ==
    (probe.phase = "scored" /\ probe.a.amount >= 0 /\ probe.b.amount >= 0)
        => /\ InUnit(probe.ab)
           /\ InUnit(probe.amount)
           /\ InUnit(probe.title)
           /\ InUnit(probe.category)

\* A scored pair whose amount and title terms lie strictly between 0 and 1.
C11_Witness ==
    /\ probe.phase = "scored"
    /\ probe.a.amount < probe.b.amount /\ probe.a.amount > 0
    /\ 0 < probe.title[1] /\ probe.title[1] < probe.title[2]
    /\ 0 < probe.amount[1] /\ probe.amount[1] < probe.amount[2]
    /\ probe.category = <<0, 1>>

\* C12: calculateSimilarity of an expense with itself is exactly 1 when the
\* expense has a non-empty title and a category.
C12_SimilarityReflexive ==
    (/\ probe.phase = "scored"
     /\ probe.a = probe.b
     /\ probe.a.title # None /\ probe.a.title # Some(<<>>)
     /\ probe.a.category # None)
        => /\ probe.ab[1] = probe.ab[2]
           /\ probe.amount[1] = probe.amount[2]
           /\ probe.title[1] = probe.title[2]
           /\ probe.category = <<1, 1>>

\* An expense of amount 0, a two-letter title and a category, scored with
\* itself.
C12_Witness ==
    /\ probe.phase = "scored"
    /\ probe.a = probe.b
    /\ probe.a.amount = 0
    /\ probe.a.title # None /\ Len(OrElse(probe.a.title, <<>>)) = 2
    /\ probe.a.category # None

\* similarity(a, b) >= 0.8
AtLeastFourFifths(a, b) ==
    LET sim == calculateSimilarity(a, b) IN 5 * sim[1] >= 4 * sim[2]
Occurrences(seq, x) == Cardinality({i \in DOMAIN seq : seq[i] = x})

\* C13: findSimilarExpenses returns exactly the entries of the history whose
\* id differs from the target's and whose similarity to the target is >= 0.8,
\* each as often as the history holds it; an entry of the target's id is
\* never returned.
C13_ClusterExact ==
    probe.phase = "clustered" =>
        /\ \A i \in DOMAIN probe.cluster : probe.cluster[i].id # probe.target.id
        /\ \A x \in ClusterExpenses :
               Occurrences(probe.cluster, x) =
                   IF x.id # probe.target.id /\ AtLeastFourFifths(probe.target, x)
                   THEN Occurrences(probe.history, x)
                   ELSE 0

\* A history of the target itself and of another expense at similarity 0.8
\* exactly (half the amount): the cluster is the other expense alone.
C13_Witness ==
    /\ probe.phase = "clustered"
    /\ Len(probe.history) = 2
    /\ probe.history[1] = probe.target
    /\ probe.history[2].id # probe.target.id
    /\ LET sim == calculateSimilarity(probe.target, probe.history[2])
       IN 5 * sim[1] = 4 * sim[2]
    /\ probe.cluster = <<probe.history[2]>>

\* The ranges of the mean gap, in days: <<bucket, low, high, high included>>.
Ranges ==
    {<<"daily", 0, 2, FALSE>>, <<"weekly", 6, 8, TRUE>>, <<"biweekly", 13, 17, TRUE>>,
     <<"monthly", 28, 32, TRUE>>, <<"quarterly", 88, 95, TRUE>>, <<"yearly", 360, 370, TRUE>>}
\* the mean total/count lies in the range r
InRange(r, total, count) ==
    /\ r[2] * count <= total
    /\ IF r[4] THEN total <= r[3] * count ELSE total < r[3] * count

\* C14: the frequency of a mean gap is the bucket of the one range that holds
\* it ([0,2) daily, [6,8] weekly, [13,17] biweekly, [28,32] monthly, [88,95]
\* quarterly, [360,370] yearly), and unknown when no range holds it; no mean
\* gap lies in two ranges.
C14_FrequencyRanges ==
    (probe.phase = "classified" /\ probe.intervals # <<>>) =>
        LET total == reduceSum(probe.intervals)
            count == Len(probe.intervals)
            holding == {r \in Ranges : InRange(r, total, count)}
        IN /\ Cardinality(holding) <= 1
           /\ \A r \in holding : probe.frequency = r[1]
           /\ holding = {} => probe.frequency = "unknown"

\* Two gaps of 2 days: a mean of exactly 2 days, past the daily range.
C14_Witness ==
    /\ probe.phase = "classified"
    /\ probe.intervals = <<2, 2>>
    /\ probe.frequency = "unknown"

\* The sum over i of (count * intervals[i] - total)^2, which is count^3 times
\* the variance of the gaps.
RECURSIVE sumSquaredDeviations(_, _, _)
sumSquaredDeviations(intervals, total, count) ==
    IF intervals = <<>> THEN 0
    ELSE (count * intervals[1] - total) * (count * intervals[1] - total)
         + sumSquaredDeviations(Tail(intervals), total, count)

MergedConfidence(e, h) ==
    LET merged == <<Store[e]>> \o findSimilarExpenses(Store[e], Records(h))
    IN determineFrequency(calculateIntervals(sortedByDate(merged)))[2]
\* The arguments of analyze with a cluster of two or more and a confidence of
\* 0.6 exactly: (1 - 0.6)^2 = 16/100.
ExactlySixty ==
    SameAnalysis({x \in ExpenseIds \X Histories :
                     /\ Cardinality(analysis(x[1], x[2], 0).similar) >= 2
                     /\ LET c == MergedConfidence(x[1], x[2])
                        IN 100 * c[1] = 16 * c[2]})
\* 0.6 < c <= 1 for the confidence c carried as (1 - c)^2
StrictlyAboveSixty(confidence) ==
    /\ confidence[2] > 0 /\ confidence[1] >= 0
    /\ 100 * confidence[1] < 16 * confidence[2]

\* C16: an analyze whose merged set has a confidence of exactly 0.6 builds no
\* pattern, and every stored pattern, every pattern of an analyze in flight
\* and every stored suggestion has a confidence > 0.6 and <= 1.
C16_ConfidenceStrictlyAbove ==
    [][/\ \A x \in ExactlySixty :
              (AnalyzeOf(x[1]) /\ AnalyzeCompute(x[1], x[2]))
                  => /\ lastOp'.outcome = "none"
                     /\ UNCHANGED <<detectedPatterns, suggestions, tasks>>
       /\ \A i \in DOMAIN detectedPatterns' :
              StrictlyAboveSixty(detectedPatterns'[i].confidence)
       /\ \A t \in tasks' : StrictlyAboveSixty(t.pattern.confidence)
       /\ \A i \in DOMAIN suggestions' :
              /\ StrictlyAboveSixty(suggestions'[i].confidence)
              /\ StrictlyAboveSixty(suggestions'[i].pattern.confidence)]_vars

\* Expense 3 with the expenses of days 30 and 130 (gaps of 30 and 70 days,
\* confidence 0.6) has been analyzed to no pattern while a pattern and a
\* suggestion of a confidence below 1 are stored.
C16_Witness ==
    /\ ExactlySixty # {}
    /\ lastOp.op = "analyze" /\ lastOp.outcome = "none" /\ lastOp.expense = 3
    /\ \E i \in DOMAIN detectedPatterns : detectedPatterns[i].confidence[1] > 0
    /\ \E i \in DOMAIN suggestions : suggestions[i].confidence[1] > 0

\* The day `next` is the day `last` moved by `months` calendar months: the
\* same day of the month, or the last day of a shorter month.
CalendarMonthsLater(last, next, months) ==
    LET a == ToYMD(last)
        b == ToYMD(next)
        end == DaysInMonth(b[1], b[2])
    IN /\ (12 * b[1] + b[2]) - (12 * a[1] + a[2]) = months
       /\ b[3] = IF a[3] > end THEN end ELSE a[3]
\* nextPredicted of a pattern is its lastOccurrence moved by one unit of its
\* frequency, and absent for the frequency unknown alone.
NextFollowsLast(p) ==
    /\ p.nextPredicted = None <=> p.frequency = "unknown"
    /\ p.frequency = "daily" => p.nextPredicted = Some(p.lastOccurrence + 1)
    /\ p.frequency = "weekly" => p.nextPredicted = Some(p.lastOccurrence + 7)
    /\ p.frequency = "biweekly" => p.nextPredicted = Some(p.lastOccurrence + 14)
    /\ p.frequency = "monthly" =>
           CalendarMonthsLater(p.lastOccurrence, OrElse(p.nextPredicted, 0), 1)
    /\ p.frequency = "quarterly" =>
           CalendarMonthsLater(p.lastOccurrence, OrElse(p.nextPredicted, 0), 3)
    /\ p.frequency = "yearly" =>
           CalendarMonthsLater(p.lastOccurrence, OrElse(p.nextPredicted, 0), 12)

\* C17: every pattern detectPattern builds, and so every pattern stored or
\* on its way to the store, has its nextPredicted absent exactly when its
\* frequency is unknown and otherwise one cadence unit after lastOccurrence
\* (1, 7, 14 days, 1 or 3 calendar months, 1 calendar year); lastOccurrence
\* is the latest date of the trigger and its similar expenses.
C17_NextAfterLast ==
    /\ \A i \in DOMAIN detectedPatterns : NextFollowsLast(detectedPatterns[i])
    /\ \A t \in tasks : NextFollowsLast(t.pattern)
    /\ (probe.phase = "detected" /\ probe.pattern # None) =>
           LET p == probe.pattern[1]
               dates == {probe.expense.date}
                        \cup {probe.similarExpenses[i].date : i \in DOMAIN probe.similarExpenses}
           IN /\ NextFollowsLast(p)
              /\ p.lastOccurrence \in dates
              /\ \A d \in dates : d <= p.lastOccurrence

\* The trigger of 2024-02-29 with similar expenses of 2024-01-29 and
\* 2024-03-31: a monthly pattern whose next date is 2024-04-30.
C17_Witness ==
    /\ probe.phase = "detected"
    /\ probe.expense.date = 59
    /\ probe.pattern # None
    /\ probe.pattern[1].frequency = "monthly"
    /\ probe.pattern[1].lastOccurrence = 90
    /\ probe.pattern[1].nextPredicted = Some(120)

\* `result` holds exactly the stored patterns whose nextPredicted lies in
\* [now, now + days], each once, in ascending order of nextPredicted.
UpcomingWithin(result, now, days) ==
    /\ \A i \in DOMAIN detectedPatterns :
           Occurrences(result, detectedPatterns[i]) =
               IF /\ detectedPatterns[i].nextPredicted # None
                  /\ now <= detectedPatterns[i].nextPredicted[1]
                  /\ detectedPatterns[i].nextPredicted[1] <= now + days
               THEN 1 ELSE 0
    /\ \A i \in DOMAIN result :
           /\ \E j \in DOMAIN detectedPatterns : detectedPatterns[j] = result[i]
           /\ result[i].nextPredicted # None
    /\ \A i, j \in DOMAIN result :
           i < j => result[i].nextPredicted[1] <= result[j].nextPredicted[1]

\* C18, as claimed: the query returns the stored patterns whose nextPredicted
\* lies in [now, now + withinDays] for the withinDays the caller asks for,
\* in ascending order of nextPredicted.
C18_UpcomingWithinDays ==
    probe.phase = "upcoming" => UpcomingWithin(probe.result, probe.now, probe.withinDays)

\* C18, amended: the query returns the stored patterns whose nextPredicted
\* lies in [now, now + 7 days], whatever window the caller wants, in
\* ascending order of nextPredicted; a pattern without nextPredicted is
\* never returned.
C18_UpcomingNextWeek ==
    probe.phase = "upcoming" => UpcomingWithin(probe.result, probe.now, 7)

\* A query on day 14 with a pattern due on day 21, the last day of the
\* window, stored after one due on day 22: the result is the former alone.
C18_Witness ==
    /\ probe.phase = "upcoming"
    /\ probe.now = 14
    /\ Len(detectedPatterns) = 2
    /\ detectedPatterns[1].nextPredicted = Some(22)
    /\ detectedPatterns[2].nextPredicted = Some(21)
    /\ probe.result = <<detectedPatterns[2]>>

\* The threads in the middle of an operation of the registry.
Inside == {th \in Threads : running[th] # Idle}

\* C19: the accesses of the pattern and suggestion lists are serialized: at
\* no time are two operations (the block of analyze, a dismiss, a promote)
\* between their first and their last access of the lists, and no write of
\* one is lost to another.
C19_SingleWriter ==
    /\ Cardinality(Inside) <= 1
    /\ Alive

\* the calls of analyze made for the expense
AnalysesOf(expense) == {i \in DOMAIN analyses : analyses[i].expense = expense}

\* C20: every expense persisted by a recording path (addExpense, the form's
\* saveExpense, importExpensesFromCSV) is analyzed in the end, no expense is
\* analyzed twice or without being persisted, and the history of an
\* analysis is the persisted expenses of that moment.
C20_EveryRecordedExpenseAnalyzed ==
    /\ \A expense \in 1..MaxExpenses :
           (expense \in persisted) ~> (AnalysesOf(expense) # {})
    /\ [](\A expense \in 1..MaxExpenses :
             /\ Cardinality(AnalysesOf(expense)) <= 1
             /\ AnalysesOf(expense) # {} => expense \in persisted)
    /\ [][RunCheck => fetched = persisted]_vars

\* C21: a step of analyze or of dismiss leaves the isRecurring flag of every
\* expense as it was (the other fields of an expense, the records of Store,
\* are assigned by no operation); a step that changes a flag is a promote,
\* and it changes the flag of the promoted expense alone.
C21_ExpenseFrame ==
    [][/\ lastOp'.op \in {"analyze", "compute", "dismiss"} => isRecurring' = isRecurring
       /\ isRecurring' # isRecurring =>
              /\ lastOp'.op = "promote"
              /\ \A o \in ExpenseIds \ {lastOp'.expense} : isRecurring'[o] = isRecurring[o]]_vars

\* A dismiss has removed a suggestion while some expenses are recurring and
\* others, with a suggestion pending, are not.
C21_Witness ==
    /\ lastOp.op = "dismiss" /\ lastOp.outcome = "removed"
    /\ \E e \in ExpenseIds : isRecurring[e]
    /\ \E i \in DOMAIN suggestions : ~isRecurring[suggestions[i].expense]

BelowHalf(r) == RatLess(r, <<1, 2>>)

TenAndThousand ==
    /\ {probe.target.amount, probe.history[1].amount} = {10, 1000}
    /\ probe.target.id # probe.history[1].id
    /\ probe.target.category = probe.history[1].category

C23_FarAmountsNeverMatch ==
    probe.phase = "clustered" =>
        /\ \A i \in DOMAIN probe.cluster :
               ~BelowHalf(amountSimilarity(probe.target.amount, probe.cluster[i].amount))
        /\ \A i \in DOMAIN probe.history :
               BelowHalf(amountSimilarity(probe.target.amount, probe.history[i].amount))
                   => RatLess(calculateSimilarity(probe.target, probe.history[i]),
                              <<threshold, 100>>)
        /\ (Len(probe.history) = 1 /\ TenAndThousand)
               => probe.cluster = <<>> /\ probe.pattern = None

C23_Witness ==
    /\ probe.phase = "clustered"
    /\ Len(probe.history) = 1 /\ TenAndThousand
    /\ probe.cluster = <<>> /\ probe.pattern = None

\* C24: two expenses whose categories are equal once a missing category is
\* read as "Other" have category similarity 1: an expense with no category
\* against one of category "Other", and two expenses with no category.
C24_MissingCategoryIsOther ==
    (/\ probe.phase = "scored"
     /\ OrElse(probe.a.category, "Other") = OrElse(probe.b.category, "Other"))
        => probe.category = <<1, 1>>

\* both amounts 0, both titles empty or missing, both categories missing
AllEmpty ==
    /\ probe.a.amount = 0 /\ probe.b.amount = 0
    /\ OrElse(probe.a.title, <<>>) = <<>> /\ OrElse(probe.b.title, <<>>) = <<>>
    /\ probe.a.category = None /\ probe.b.category = None

\* C25 as stated: two expenses for which all three comparisons are empty
\* have similarity 0.
C25_EmptyNeverMatches ==
    (probe.phase = "scored" /\ AllEmpty) => probe.ab[1] = 0

\* C25 as the code has it: two such expenses have similarity exactly 1, each
\* of the three terms being 1, which is at or above the threshold of the
\* cluster.
C25_EmptyMatches ==
    (probe.phase = "scored" /\ AllEmpty)
        => /\ probe.amount = <<1, 1>> /\ probe.title = <<1, 1>> /\ probe.category = <<1, 1>>
           /\ probe.ab[1] = probe.ab[2] /\ probe.ab[2] > 0
           /\ RatLeq(<<threshold, 100>>, probe.ab)

\* One title missing and the other the empty string.
C25_Witness ==
    /\ probe.phase = "scored" /\ AllEmpty
    /\ probe.a.title = None /\ probe.b.title = Some(<<>>)
    /\ probe.ab[1] = probe.ab[2]

\* the trigger and its similar expenses, at least one, share one date
OneTimestamp ==
    /\ probe.similarExpenses # <<>>
    /\ \A i \in DOMAIN probe.similarExpenses :
           probe.similarExpenses[i].date = probe.expense.date

\* C26: when every gap is zero, and so the mean gap, determineFrequency
\* returns a confidence of exactly 0 and detectPattern returns no pattern:
\* the call ends normally, and nothing is stored or suggested for it.
C26_ZeroMeanGap ==
    (probe.phase = "detected" /\ OneTimestamp) =>
        LET sortedExpenses == sortedByDate(<<probe.expense>> \o probe.similarExpenses)
            intervals == calculateIntervals(sortedExpenses)
            fc == determineFrequency(intervals)
        IN /\ reduceSum(intervals) = 0
           /\ fc[2] = ZeroConfidence
           /\ ~ConfidenceAbove(fc[2], 0)
           /\ probe.pattern = None

\* Three expenses of one day.
C26_Witness ==
    /\ probe.phase = "detected" /\ OneTimestamp
    /\ Len(probe.similarExpenses) = 2
    /\ probe.pattern = None

\* The two analyses agree in everything but the average amount: the cluster
\* holds the same expenses, both or neither found a pattern, the patterns
\* agree in frequency, confidence, lastOccurrence and nextPredicted, and
\* both or neither suggest.
SameButAverage ==
    /\ IdsOf(probe.first.similar) = IdsOf(probe.second.similar)
    /\ Len(probe.first.similar) = Len(probe.second.similar)
    /\ (probe.first.pattern = None) = (probe.second.pattern = None)
    /\ probe.first.suggested = probe.second.suggested
    /\ probe.first.pattern # None =>
           LET p == probe.first.pattern[1]
               q == probe.second.pattern[1]
           IN /\ p.frequency = q.frequency /\ p.confidence = q.confidence
              /\ p.lastOccurrence = q.lastOccurrence
              /\ p.nextPredicted = q.nextPredicted

\* the average amounts of the two patterns are the same Double
SameAverage ==
    probe.first.pattern # None =>
        LET p == probe.first.pattern[1].averageAmount
            q == probe.second.pattern[1].averageAmount
        IN RatEq(doubleQuotient(p[1], p[2]), doubleQuotient(q[1], q[2]))

\* no two of the trigger and the members of its cluster are of one date
DistinctDates ==
    LET members == <<probe.expense>> \o probe.first.similar
    IN \A i, j \in DOMAIN members : i # j => members[i].date # members[j].date

\* C27 as stated: analyze on one expense with a history and with any
\* reordering of it gives the same cluster, frequency, confidence,
\* averageAmount, lastOccurrence and suggestion presence.
C27_OrderIndependent ==
    probe.phase = "ordered" => SameButAverage /\ SameAverage

\* C27 as the code has it: the two analyses agree in cluster, frequency,
\* confidence, lastOccurrence, nextPredicted and suggestion presence, and
\* in averageAmount when no two of the trigger and its cluster members share
\* a date (members of one date are summed in the order of the history).
C27_OrderIndependentButSum ==
    probe.phase = "ordered" => SameButAverage /\ (DistinctDates => SameAverage)

\* A reversed history of distinct dates: a monthly pattern both times.
C27_Witness ==
    /\ probe.phase = "ordered"
    /\ probe.reordered # probe.allExpenses
    /\ DistinctDates
    /\ probe.first.pattern # None /\ probe.second.pattern # None
    /\ probe.first.pattern[1].frequency = "monthly"
    /\ probe.first.similar # probe.second.similar

C29_ReferentialIntegrity ==
    /\ [](\A i \in DOMAIN suggestions :
             /\ suggestions[i].pattern.id \in PatternIds
             /\ \A j \in DOMAIN detectedPatterns :
                    detectedPatterns[j].id = suggestions[i].pattern.id
                        => /\ detectedPatterns[j] = suggestions[i].pattern
                           /\ detectedPatterns[j].confidence = suggestions[i].confidence)
    /\ [][/\ Len(detectedPatterns') >= Len(detectedPatterns)
          /\ SubSeq(detectedPatterns', 1, Len(detectedPatterns)) = detectedPatterns]_vars

\* Two patterns are stored, a suggestion of the second has been dismissed
\* and a suggestion of the first is still pending.
C29_Witness ==
    /\ lastOp.op = "dismiss" /\ lastOp.outcome = "removed"
    /\ Len(detectedPatterns) = 2
    /\ Len(suggestions) = 1
    /\ suggestions[1].pattern = detectedPatterns[1]

\* b is in the cluster of a when the two have different ids
InCluster(a, b) ==
    findSimilarExpenses([a EXCEPT !.id = 1], <<[b EXCEPT !.id = 2]>>) # <<>>

\* C30: an expense in the cluster of a trigger has the category value of the
\* trigger (both missing included) and a title similarity to it of at least
\* 3/7, whatever the amounts.
C30_ClusterSharesCategory ==
    (probe.phase = "scored" /\ InCluster(probe.a, probe.b))
        => /\ probe.a.category = probe.b.category
           /\ probe.category = <<1, 1>>
           /\ RatLeq(<<3, 7>>, probe.title)

\* "Netflix" and "Net", of one amount and one category: title similarity 3/7
\* and a score of 0.8 exactly.
C30_Witness ==
    /\ probe.phase = "scored" /\ InCluster(probe.a, probe.b)
    /\ probe.a.title = Some(Netflix) /\ probe.b.title = Some(<<"N", "e", "t">>)
    /\ probe.title = <<3, 7>>
    /\ probe.a.category = None /\ probe.b.category = None

====
